---- MODULE Spec2Model ----
(***************************************************************************)
(* Model of the numerical examples: exponentiation by squaring, the        *)
(* Complex class with its operator overloads, Heron's method and           *)
(* Steffensen's method.                                                    *)
(*                                                                         *)
(* Python numbers (int, float, complex) are immutable values and are       *)
(* modelled exactly, as Gaussian rationals re/den + i*im/den in lowest     *)
(* terms.  Instances of the Complex class are mutable objects: a value     *)
(* of that type is a reference into heap, a sequence of records with the   *)
(* attributes real and imag.                                               *)
(***************************************************************************)
EXTENDS Integers, Sequences, FiniteSets, TLC

\* Bounds of the model.
MaxBase == 2
MaxIm == 1
MaxExp == 6
MaxPair == 3
MaxOps == 2
MaxPart == 2
FracBits == 8
MaxAbs == 64
MaxX == 16
MaxCoef == 2
MaxGuess == 4
MaxNum == 6
MaxDen == 6
MaxTerm == 8192

VARIABLES
    pc,         \* position of the running program
    heap,       \* the Complex instances alive, by identity
    z_val,      \* exp_by_squaring: the base the caller passes
    power,      \* exp_by_squaring: the exponent the caller passes
    given,      \* the components of z_val when the call is made
    n,          \* exp_by_squaring: local n
    output,     \* exp_by_squaring: local output
    scale,      \* exp_by_squaring: local scale
    z_pow,      \* what the call returned or raised
    nmul,       \* multiplications performed by the call
    ninv,       \* inversions performed by the call
    iters,      \* passes through the loop body
    power2,     \* the second exponent of the product law's calls
    prod,       \* exp_by_squaring(z, n) * exp_by_squaring(z, m)
    last,       \* Complex class: the statement executed last
    nops,       \* Complex class: statements executed so far
    x,          \* herons_method: the argument
    approximate_root,   \* herons_method: the iterate
    sqrt_x,     \* what herons_method returned or raised
    func,       \* steffensen: the function f passed
    X,          \* steffensen: the guess passed
    xn,         \* steffensen: the iterate
    root,       \* what steffensen returned or raised
    nevals,     \* steffensen: evaluations of f so far
    again       \* what the second call of a solver returned or raised

expVars == <<z_val, power, given, n, output, scale, z_pow, nmul, ninv>>

powVars == <<power2, prod>>

cxVars == <<last, nops>>

heronVars == <<x, approximate_root, sqrt_x>>

steffVars == <<func, X, xn, root, nevals>>

vars ==
    <<pc, heap, iters, expVars, powVars, cxVars, heronVars, steffVars, again>>

(***************************************************************************)
(* Exact arithmetic of Python numbers.                                     *)
(***************************************************************************)
Abs(a) == IF a < 0 THEN -a ELSE a

RECURSIVE GCD(_, _)
GCD(a, b) == IF b = 0 THEN a ELSE GCD(b, a % b)

\* The number re/den + i*im/den, den # 0, in lowest terms with den > 0.
Num(re, im, den) ==
    LET g == GCD(GCD(Abs(re), Abs(im)), Abs(den))
        s == IF den < 0 THEN -1 ELSE 1
    IN  [kind |-> "num", re |-> (s * re) \div g, im |-> (s * im) \div g,
         den |-> Abs(den) \div g]

Real(a) == Num(a, 0, 1)

Ref(i) == [kind |-> "ref", id |-> i]

None == [kind |-> "none"]

IsNum(v) == v.kind = "num"

IsRef(v) == v.kind = "ref"

IsZero(v) == v.re = 0 /\ v.im = 0

NumMul(a, b) ==
    Num(a.re * b.re - a.im * b.im, a.re * b.im + a.im * b.re, a.den * b.den)

\* 1 / a for a # 0: den * conj(a) / |a|^2.
NumInv(a) == Num(a.den * a.re, -(a.den * a.im), a.re * a.re + a.im * a.im)

\* float(v) of a number: defined for the real ones.  The Complex class is
\* only ever combined with integral reals here, so the float is v.re.
CanFloat(v) == IsNum(v) /\ v.im = 0 /\ v.den = 1

Float(v) == v.re

(***************************************************************************)
(* The Complex class.  An operation yields the heap after it, the value    *)
(* it returns and the exception it raises ("" for none).                   *)
(***************************************************************************)
Ret(h, v) == [heap |-> h, val |-> v, err |-> ""]

Raise(h, e) == [heap |-> h, val |-> None, err |-> e]

\* Complex(real, imag): a new object.
Complex__init__(h, real, imag) ==
    Ret(Append(h, [real |-> real, imag |-> imag]), Ref(Len(h) + 1))

\* self + other, lines 112-130.
Complex__add__(h, self, other) ==
    IF ~IsRef(other)
    THEN IF ~CanFloat(other)
         THEN Raise(h, "TypeError")
         ELSE LET other_real == Float(other)
                  real_sum == h[self.id].real + other_real
                  imag_sum == h[self.id].imag
              IN  Complex__init__(h, real_sum, imag_sum)
    ELSE LET real_sum == h[self.id].real + h[other.id].real
             imag_sum == h[self.id].imag + h[other.id].imag
         IN  Complex__init__(h, real_sum, imag_sum)

\* self += other, lines 150-165: two attribute stores, one after the other.
Complex__iadd__(h, self, other) ==
    IF ~IsRef(other)
    THEN IF ~CanFloat(other)
         THEN Raise(h, "TypeError")
         ELSE Ret([h EXCEPT ![self.id].real = @ + Float(other)], self)
    ELSE LET h1 == [h EXCEPT ![self.id].real = @ + h[other.id].real]
             h2 == [h1 EXCEPT ![self.id].imag = @ + h1[other.id].imag]
         IN  Ret(h2, self)

\* self - other, lines 193-211.
Complex__sub__(h, self, other) ==
    IF ~IsRef(other)
    THEN IF ~CanFloat(other)
         THEN Raise(h, "TypeError")
         ELSE LET other_real == Float(other)
                  real_diff == h[self.id].real - other_real
                  imag_diff == h[self.id].imag
              IN  Complex__init__(h, real_diff, imag_diff)
    ELSE LET real_diff == h[self.id].real - h[other.id].real
             imag_diff == h[self.id].imag - h[other.id].imag
         IN  Complex__init__(h, real_diff, imag_diff)

\* self -= other, lines 231-246.
Complex__isub__(h, self, other) ==
    IF ~IsRef(other)
    THEN IF ~CanFloat(other)
         THEN Raise(h, "TypeError")
         ELSE Ret([h EXCEPT ![self.id].real = @ - Float(other)], self)
    ELSE LET h1 == [h EXCEPT ![self.id].real = @ - h[other.id].real]
             h2 == [h1 EXCEPT ![self.id].imag = @ - h1[other.id].imag]
         IN  Ret(h2, self)

\* -self, lines 388-390.
Complex__neg__(h, self) ==
    LET real_val == -h[self.id].real
        imag_val == -h[self.id].imag
    IN  Complex__init__(h, real_val, imag_val)

\* self.conj(), line 407.
Complex_conj(h, self) == Complex__init__(h, h[self.id].real, -h[self.id].imag)

\* self.copy(), line 460.
Complex_copy(h, self) == Complex__init__(h, h[self.id].real, h[self.id].imag)

\* self * other, lines 273-289.
Complex__mul__(h, self, other) ==
    IF ~IsRef(other)
    THEN IF ~CanFloat(other)
         THEN Raise(h, "TypeError")
         ELSE LET other_real == Float(other)
                  prod_real == h[self.id].real * other_real
                  prod_imag == h[self.id].imag * other_real
              IN  Complex__init__(h, prod_real, prod_imag)
    ELSE LET prod_real == h[self.id].real * h[other.id].real
                          - h[self.id].imag * h[other.id].imag
             prod_imag == h[self.id].real * h[other.id].imag
                          + h[self.id].imag * h[other.id].real
         IN  Complex__init__(h, prod_real, prod_imag)

\* other * self for an other that cannot multiply a Complex, lines 310-326.
Complex__rmul__(h, self, other) ==
    IF ~IsRef(other)
    THEN IF ~CanFloat(other)
         THEN Raise(h, "TypeError")
         ELSE LET other_real == Float(other)
                  prod_real == other_real * h[self.id].real
                  prod_imag == other_real * h[self.id].imag
              IN  Complex__init__(h, prod_real, prod_imag)
    ELSE LET prod_real == h[other.id].real * h[self.id].real
                          - h[other.id].imag * h[self.id].imag
             prod_imag == h[other.id].real * h[self.id].imag
                          + h[other.id].imag * h[self.id].real
         IN  Complex__init__(h, prod_real, prod_imag)

\* self *= other.  The two attribute stores happen one after the other, and
\* other's attributes are read from the heap as it is at each store: when
\* other is self, the second store reads the real part the first one wrote.
Complex__imul__(h, self, other) ==
    IF ~IsRef(other)
    THEN IF ~CanFloat(other)
         THEN Raise(h, "TypeError")
         ELSE LET other_real == Float(other)
                  h1 == [h EXCEPT ![self.id].real = @ * other_real]
                  h2 == [h1 EXCEPT ![self.id].imag = @ * other_real]
              IN  Ret(h2, self)
    ELSE LET self_real == h[self.id].real
             h1 == [h EXCEPT ![self.id].real =
                       h[self.id].real * h[other.id].real
                       - h[self.id].imag * h[other.id].imag]
             h2 == [h1 EXCEPT ![self.id].imag =
                       self_real * h1[other.id].imag
                       + h1[self.id].imag * h1[other.id].real]
         IN  Ret(h2, self)

(***************************************************************************)
(* Python's dispatch of the operators exp_by_squaring applies to its       *)
(* base, for a number or a Complex instance on either side.                *)
(***************************************************************************)
\* a * b
PyMul(h, a, b) ==
    IF IsRef(a) THEN Complex__mul__(h, a, b)
    ELSE IF IsRef(b) THEN Complex__rmul__(h, b, a)
    ELSE Ret(h, NumMul(a, b))

\* a *= b: the in-place method of a's type when it has one, else a * b.
PyIMul(h, a, b) ==
    IF IsRef(a) THEN Complex__imul__(h, a, b) ELSE PyMul(h, a, b)

\* a == b for Complex instances.  The class defines no __eq__, so Python
\* falls back on object.__eq__: the identity of the two objects.
PyEq(h, a, b) == a.id = b.id

\* a / b.  The Complex class defines neither __truediv__ nor __rtruediv__,
\* so with a Complex instance on either side both lookups fail and Python
\* raises TypeError; 1 / output is the case exp_by_squaring uses.
PyTruediv(h, a, b) ==
    IF IsRef(a) \/ IsRef(b) THEN Raise(h, "TypeError")
    ELSE IF IsZero(b) THEN Raise(h, "ZeroDivisionError")
    ELSE Ret(h, NumMul(a, NumInv(b)))

(***************************************************************************)
(* exp_by_squaring(z, n).  A frame holds the locals, the heap, the         *)
(* position and, once the call has ended, what it returned or raised.      *)
(* nmul, ninv and iters count the multiplications, the inversions and the  *)
(* passes through the loop body.                                           *)
(***************************************************************************)
Ok(v) == [tag |-> "ok", val |-> v]

Err(e) == [tag |-> e, val |-> None]

Pending == [tag |-> "pending", val |-> None]

\* The entry without the special case of the zero exponent.
exp_entry_without_zero_case(h, zv, nv) ==
    IF nv < 0
    THEN LET r == PyTruediv(h, Real(1), zv)
         IN  IF r.err # ""
             THEN [pc |-> "done", heap |-> r.heap, n |-> nv, output |-> zv,
                   scale |-> None, z_pow |-> Err(r.err), nmul |-> 0,
                   ninv |-> 0, iters |-> 0]
             ELSE [pc |-> "loop", heap |-> r.heap, n |-> -nv,
                   output |-> r.val, scale |-> Real(1), z_pow |-> Pending,
                   nmul |-> 0, ninv |-> 1, iters |-> 0]
    ELSE [pc |-> "loop", heap |-> h, n |-> nv, output |-> zv,
          scale |-> Real(1), z_pow |-> Pending, nmul |-> 0, ninv |-> 0,
          iters |-> 0]

\* The entry that negates a negative exponent but keeps the base.
exp_entry_forgets_reciprocal(h, zv, nv) ==
    IF nv = 0
    THEN [pc |-> "done", heap |-> h, n |-> nv, output |-> None,
          scale |-> None, z_pow |-> Ok(Real(1)), nmul |-> 0, ninv |-> 0,
          iters |-> 0]
    ELSE [pc |-> "loop", heap |-> h, n |-> Abs(nv), output |-> zv,
          scale |-> Real(1), z_pow |-> Pending, nmul |-> 0, ninv |-> 0,
          iters |-> 0]

\* Lines 50-61: the zero exponent, the reciprocal for a negative one, and
\* the initial output and scale.
exp_entry(h, zv, nv) ==
    IF nv = 0
    THEN [pc |-> "done", heap |-> h, n |-> nv, output |-> None,
          scale |-> None, z_pow |-> Ok(Real(1)), nmul |-> 0, ninv |-> 0,
          iters |-> 0]
    ELSE IF nv < 0
    THEN LET r == PyTruediv(h, Real(1), zv)
         IN  IF r.err # ""
             THEN [pc |-> "done", heap |-> r.heap, n |-> nv, output |-> zv,
                   scale |-> None, z_pow |-> Err(r.err), nmul |-> 0,
                   ninv |-> 0, iters |-> 0]
             ELSE [pc |-> "loop", heap |-> r.heap, n |-> -nv,
                   output |-> r.val, scale |-> Real(1), z_pow |-> Pending,
                   nmul |-> 0, ninv |-> 1, iters |-> 0]
    ELSE [pc |-> "loop", heap |-> h, n |-> nv, output |-> zv,
          scale |-> Real(1), z_pow |-> Pending, nmul |-> 0, ninv |-> 0,
          iters |-> 0]

\* The body that squares output before it multiplies scale by it.
exp_body_square_first(fr) ==
    LET odd == fr.n % 2 = 1
        r2 == PyIMul(fr.heap, fr.output, fr.output)
        r1 == IF odd THEN PyIMul(r2.heap, fr.scale, r2.val)
              ELSE Ret(r2.heap, fr.scale)
        n1 == IF odd THEN fr.n - 1 ELSE fr.n
    IN  [fr EXCEPT !.heap = r1.heap, !.scale = r1.val, !.output = r2.val,
                   !.n = n1 \div 2, !.nmul = @ + (IF odd THEN 2 ELSE 1),
                   !.iters = @ + 1]

\* The body that, for an odd n, only multiplies scale by output and
\* subtracts one, leaving the squaring to the next pass.
exp_body_odd_without_squaring(fr) ==
    IF fr.n % 2 = 1
    THEN LET r1 == PyIMul(fr.heap, fr.scale, fr.output)
         IN  [fr EXCEPT !.heap = r1.heap, !.scale = r1.val, !.n = @ - 1,
                        !.nmul = @ + 1, !.iters = @ + 1]
    ELSE LET r2 == PyIMul(fr.heap, fr.output, fr.output)
         IN  [fr EXCEPT !.heap = r2.heap, !.output = r2.val,
                        !.n = @ \div 2, !.nmul = @ + 1, !.iters = @ + 1]

\* Lines 80-86: one pass through the body of the while loop (n > 1).
exp_body(fr) ==
    LET odd == fr.n % 2 = 1
        r1 == IF odd THEN PyIMul(fr.heap, fr.scale, fr.output)
              ELSE Ret(fr.heap, fr.scale)
        n1 == IF odd THEN fr.n - 1 ELSE fr.n
        r2 == PyIMul(r1.heap, fr.output, fr.output)
    IN  IF r1.err # ""
        THEN [fr EXCEPT !.pc = "done", !.z_pow = Err(r1.err)]
        ELSE [fr EXCEPT !.heap = r2.heap, !.scale = r1.val,
                        !.output = r2.val, !.n = n1 \div 2,
                        !.nmul = @ + (IF odd THEN 2 ELSE 1),
                        !.iters = @ + 1]

\* The return statement that leaves scale out.
exp_return_drops_scale(fr) ==
    [fr EXCEPT !.pc = "done", !.z_pow = Ok(fr.output)]

\* Line 89: return output * scale.
exp_return(fr) ==
    LET r == PyMul(fr.heap, fr.output, fr.scale)
    IN  [fr EXCEPT !.pc = "done", !.heap = r.heap,
                   !.z_pow = IF r.err # "" THEN Err(r.err) ELSE Ok(r.val),
                   !.nmul = @ + 1]

\* Line 65: the loop runs the body while n > 1, then returns.
exp_step(fr) == IF fr.n > 1 THEN exp_body(fr) ELSE exp_return(fr)

RECURSIVE exp_loop(_)
exp_loop(fr) == IF fr.pc = "done" THEN fr ELSE exp_loop(exp_step(fr))

\* The whole call, as the frame it ends in.
exp_by_squaring(h, zv, nv) == exp_loop(exp_entry(h, zv, nv))

NoStatement ==
    [op |-> "", self |-> None, other |-> None, pre |-> << >>, ret |-> None,
     err |-> ""]

\* The parts of the state a program does not use keep these values.
ExpIdle ==
    /\ z_val = None
    /\ given = None
    /\ power = 0
    /\ n = 0
    /\ output = None
    /\ scale = None
    /\ z_pow = Pending
    /\ nmul = 0
    /\ ninv = 0

PowIdle == power2 = 0 /\ prod = Pending

CxIdle == last = NoStatement /\ nops = 0

HeronIdle == x = 0 /\ approximate_root = 0 /\ sqrt_x = Pending

AgainIdle == again = Pending

SteffIdle ==
    /\ func = None
    /\ X = 0
    /\ xn = 0
    /\ root = Pending
    /\ nevals = 0

(***************************************************************************)
(* The program of exponentiating_by_squaring.py: one call of               *)
(* exp_by_squaring(z_val, power), taken a loop pass at a time.             *)
(***************************************************************************)
RealBases == {Real(a) : a \in -MaxBase..MaxBase}

\* Python complex numbers a + bj with b # 0.
ComplexBases ==
    {Num(a, b, 1) : a \in -MaxBase..MaxBase, b \in (-MaxIm..MaxIm) \ {0}}

NumberBases == RealBases \cup ComplexBases

\* The component pairs of the Complex instances passed as a base.
ClassBases == [real : -MaxBase..MaxBase, imag : -MaxIm..MaxIm]

Exponents == -MaxExp..MaxExp

SetFrame(fr) ==
    /\ pc' = fr.pc
    /\ heap' = fr.heap
    /\ n' = fr.n
    /\ output' = fr.output
    /\ scale' = fr.scale
    /\ z_pow' = fr.z_pow
    /\ nmul' = fr.nmul
    /\ ninv' = fr.ninv
    /\ iters' = fr.iters

Frame ==
    [pc |-> pc, heap |-> heap, n |-> n, output |-> output, scale |-> scale,
     z_pow |-> z_pow, nmul |-> nmul, ninv |-> ninv, iters |-> iters]

ExpInit ==
    /\ pc = "call"
    /\ power \in Exponents
    /\ \/ /\ z_val \in NumberBases
          /\ given = z_val
          /\ heap = << >>
       \/ /\ z_val = Ref(1)
          /\ given \in ClassBases
          /\ heap = <<given>>
    /\ n = 0
    /\ output = None
    /\ scale = None
    /\ z_pow = Pending
    /\ nmul = 0
    /\ ninv = 0
    /\ iters = 0
    /\ PowIdle
    /\ CxIdle
    /\ HeronIdle
    /\ SteffIdle
    /\ AgainIdle

\* The call is made and runs up to the first test of the loop condition.
ExpCall ==
    /\ pc = "call"
    /\ SetFrame(exp_entry(heap, z_val, power))
    /\ UNCHANGED <<z_val, power, given>>
    /\ UNCHANGED <<powVars, cxVars, heronVars, steffVars, again>>

\* The loop condition holds: one pass through the body.
ExpIterate ==
    /\ pc = "loop"
    /\ n > 1
    /\ SetFrame(exp_body(Frame))
    /\ UNCHANGED <<z_val, power, given>>
    /\ UNCHANGED <<powVars, cxVars, heronVars, steffVars, again>>

\* The loop condition fails: the return statement.
ExpReturn ==
    /\ pc = "loop"
    /\ ~(n > 1)
    /\ SetFrame(exp_return(Frame))
    /\ UNCHANGED <<z_val, power, given>>
    /\ UNCHANGED <<powVars, cxVars, heronVars, steffVars, again>>

ExpNext == ExpCall \/ ExpIterate \/ ExpReturn

SpecExp == ExpInit /\ [][ExpNext]_vars

(***************************************************************************)
(* Three calls on the same nonzero number z: exp_by_squaring(z, n),        *)
(* exp_by_squaring(z, m) and exp_by_squaring(z, n + m), and the product    *)
(* of the first two.                                                       *)
(***************************************************************************)
PairExponents == -MaxPair..MaxPair

PowInit ==
    /\ pc = "call"
    /\ z_val \in {b \in NumberBases : ~IsZero(b)}
    /\ given = z_val
    /\ heap = << >>
    /\ power \in PairExponents
    /\ power2 \in PairExponents
    /\ n = 0
    /\ output = None
    /\ scale = None
    /\ z_pow = Pending
    /\ nmul = 0
    /\ ninv = 0
    /\ iters = 0
    /\ prod = Pending
    /\ CxIdle
    /\ HeronIdle
    /\ SteffIdle
    /\ AgainIdle

PowCalls ==
    /\ pc = "call"
    /\ LET zn == exp_by_squaring(heap, z_val, power)
           zm == exp_by_squaring(zn.heap, z_val, power2)
           znm == exp_by_squaring(zm.heap, z_val, power + power2)
           p == PyMul(znm.heap, zn.z_pow.val, zm.z_pow.val)
       IN  /\ SetFrame(znm)
           /\ prod' = IF zn.z_pow.tag = "ok" /\ zm.z_pow.tag = "ok"
                      THEN Ok(p.val) ELSE Err("raised")
    /\ UNCHANGED <<z_val, power, given, power2>>
    /\ UNCHANGED <<cxVars, heronVars, steffVars, again>>

PowNext == PowCalls

SpecPow == PowInit /\ [][PowNext]_vars

(***************************************************************************)
(* The program of basic_syntax_with_class.py: z and w are constructed,     *)
(* then statements apply the operators of the class to the objects alive   *)
(* and to real scalars.  last records the statement executed last: its     *)
(* operator, its operands, the heap before it, and what it returned or     *)
(* raised.                                                                 *)
(***************************************************************************)
DemoZ == [real |-> 1, imag |-> 2]

DemoW == [real |-> 1, imag |-> -1]

DemoScalar == 4

Scalars == {Real(0), Real(DemoScalar)}

Instances == {Ref(i) : i \in 1..Len(heap)}

Operands == Instances \cup Scalars

\* The operators of the class and the method each one calls.
Apply(op, h, self, other) ==
    CASE op = "+" -> Complex__add__(h, self, other)
      [] op = "-" -> Complex__sub__(h, self, other)
      [] op = "*" -> PyMul(h, self, other)
      [] op = "/" -> PyTruediv(h, self, other)
      [] op = "+=" -> Complex__iadd__(h, self, other)
      [] op = "-=" -> Complex__isub__(h, self, other)
      [] op = "*=" -> PyIMul(h, self, other)
      [] op = "/=" -> PyTruediv(h, self, other)
      [] op = "neg" -> Complex__neg__(h, self)
      [] op = "conj" -> Complex_conj(h, self)
      [] op = "copy" -> Complex_copy(h, self)

Execute(op, self, other) ==
    LET r == Apply(op, heap, self, other)
    IN  /\ nops < MaxOps
        /\ heap' = r.heap
        /\ last' = [op |-> op, self |-> self, other |-> other, pre |-> heap,
                    ret |-> r.val, err |-> r.err]
        /\ nops' = nops + 1
        /\ UNCHANGED <<pc, iters, expVars, powVars, heronVars, steffVars, again>>

CxInit ==
    /\ pc = "main"
    /\ heap = <<DemoZ, DemoW>>
    /\ last = NoStatement
    /\ nops = 0
    /\ iters = 0
    /\ ExpIdle
    /\ PowIdle
    /\ HeronIdle
    /\ SteffIdle
    /\ AgainIdle

\* Complex(real, imag)
CxConstruct ==
    \E real \in 0..MaxPart, imag \in 0..MaxPart :
        LET r == Complex__init__(heap, real, imag)
        IN  /\ nops < MaxOps
            /\ heap' = r.heap
            /\ last' = [op |-> "Complex", self |-> None, other |-> None,
                        pre |-> heap, ret |-> r.val, err |-> r.err]
            /\ nops' = nops + 1
            /\ UNCHANGED <<pc, iters, expVars, powVars>>
            /\ UNCHANGED <<heronVars, steffVars, again>>

\* x + y, x - y, x * y with a Complex x and a Complex or real y.
CxBinary ==
    \E op \in {"+", "-", "*"}, self \in Instances, other \in Operands :
        Execute(op, self, other)

\* a * x with a real a and a Complex x.
CxScale ==
    \E a \in Scalars, inst \in Instances : Execute("*", a, inst)

\* x += y, x -= y, x *= y.
CxInPlace ==
    \E op \in {"+=", "-=", "*="}, self \in Instances, other \in Operands :
        Execute(op, self, other)

\* x / y, a / x and x /= y.
CxDivide ==
    \/ \E op \in {"/", "/="}, self \in Instances, other \in Operands :
          Execute(op, self, other)
    \/ \E a \in Scalars, inst \in Instances : Execute("/", a, inst)

\* -x, x.conj(), x.copy()
CxUnary ==
    \E op \in {"neg", "conj", "copy"}, self \in Instances :
        Execute(op, self, None)

CxNext ==
    CxConstruct \/ CxBinary \/ CxScale \/ CxInPlace \/ CxDivide \/ CxUnary

SpecCx == CxInit /\ [][CxNext]_vars

(***************************************************************************)
(* Floats of the two solvers.  A float is modelled in fixed point: the     *)
(* integer m stands for m / One, and every product and quotient is         *)
(* rounded to the nearest representable value, ties to even, as the        *)
(* hardware rounds.  One unit plays the part of the machine epsilon.       *)
(***************************************************************************)
One == 2 ^ FracBits

Half == One \div 2

\* p / q rounded to the nearest integer, ties to even; q # 0.
RoundDiv(p, q) ==
    LET pp == IF q < 0 THEN -p ELSE p
        qq == Abs(q)
        fl == pp \div qq
        r == pp % qq
    IN  IF 2 * r < qq THEN fl
        ELSE IF 2 * r > qq THEN fl + 1
        ELSE IF fl % 2 = 0 THEN fl ELSE fl + 1

FMul(a, b) == RoundDiv(a * b, One)

FDiv(a, b) == RoundDiv(a * One, b)

\* The floats the model can multiply, and those it can divide.
InRange(a) == Abs(a) <= MaxAbs * One

CanDivide(a) == Abs(a) <= MaxAbs * MaxAbs * One

(***************************************************************************)
(* herons_method(x).                                                       *)
(***************************************************************************)
herons_maximum_number_of_iterations == 16

\* epsilon, in units of the machine epsilon.
herons_epsilon == 1

\* The guard that lets zero through.
herons_invalid_strict(xv) == xv < 0

\* Line 49: x <= 0.0
herons_invalid(xv) == xv <= 0

\* Line 71: error = (x - approximate_root * approximate_root) / x
herons_error(xv, a) == FDiv(xv - FMul(a, a), xv)

\* Line 77: 0.5 * (approximate_root + x / approximate_root)
herons_update(xv, a) == FMul(Half, a + FDiv(xv, a))

\* The arguments tried: the multiples of 1/8 up to MaxX / 8 in size.
HeronInputs == {k * (One \div 8) : k \in -MaxX..MaxX}

HeronInit ==
    /\ pc = "call"
    /\ x \in HeronInputs
    /\ approximate_root = 0
    /\ sqrt_x = Pending
    /\ iters = 0
    /\ heap = << >>
    /\ ExpIdle
    /\ PowIdle
    /\ CxIdle
    /\ SteffIdle
    /\ AgainIdle

\* Lines 49-50: the argument is not positive.
HeronReject ==
    /\ pc = "call"
    /\ herons_invalid(x)
    /\ pc' = "done"
    /\ sqrt_x' = Err("ValueError")
    /\ UNCHANGED <<x, approximate_root, iters>>
    /\ UNCHANGED <<heap, expVars, powVars, cxVars, steffVars, again>>

\* Lines 57-64: the argument is positive; the first iterate is x.
HeronEnter ==
    /\ pc = "call"
    /\ ~herons_invalid(x)
    /\ pc' = "loop"
    /\ approximate_root' = x
    /\ UNCHANGED <<x, sqrt_x, iters>>
    /\ UNCHANGED <<heap, expVars, powVars, cxVars, steffVars, again>>

\* Lines 71-74: the error is within epsilon: break and return.
HeronConverged ==
    /\ pc = "loop"
    /\ iters < herons_maximum_number_of_iterations
    /\ Abs(herons_error(x, approximate_root)) <= herons_epsilon
    /\ pc' = "done"
    /\ sqrt_x' = Ok(approximate_root)
    /\ UNCHANGED <<x, approximate_root, iters>>
    /\ UNCHANGED <<heap, expVars, powVars, cxVars, steffVars, again>>

\* The update applied without the test of lines 73-74 before it.
HeronIterateUntested ==
    /\ pc = "loop"
    /\ iters < herons_maximum_number_of_iterations
    /\ approximate_root' = herons_update(x, approximate_root)
    /\ iters' = iters + 1
    /\ UNCHANGED <<pc, x, sqrt_x>>
    /\ UNCHANGED <<heap, expVars, powVars, cxVars, steffVars, again>>

\* Lines 71-77: the error is not within epsilon: the next iterate.
HeronIterate ==
    /\ pc = "loop"
    /\ iters < herons_maximum_number_of_iterations
    /\ ~(Abs(herons_error(x, approximate_root)) <= herons_epsilon)
    /\ approximate_root' = herons_update(x, approximate_root)
    /\ iters' = iters + 1
    /\ UNCHANGED <<pc, x, sqrt_x>>
    /\ UNCHANGED <<heap, expVars, powVars, cxVars, steffVars, again>>

\* Lines 67 and 82: the for loop is exhausted; the last iterate is returned.
HeronExhausted ==
    /\ pc = "loop"
    /\ ~(iters < herons_maximum_number_of_iterations)
    /\ pc' = "done"
    /\ sqrt_x' = Ok(approximate_root)
    /\ UNCHANGED <<x, approximate_root, iters>>
    /\ UNCHANGED <<heap, expVars, powVars, cxVars, steffVars, again>>

HeronNext ==
    \/ HeronReject
    \/ HeronEnter
    \/ HeronConverged
    \/ HeronIterate
    \/ HeronExhausted

SpecHeron == HeronInit /\ [][HeronNext]_vars

(***************************************************************************)
(* steffensen(f, x).  The functions passed are the polynomials             *)
(* c0 + c1 * x + c2 * x * x with small integer coefficients; func, the     *)
(* function of the file, is 2.0 - x * x.                                   *)
(***************************************************************************)
steffensen_maximum_number_of_iterations == 16

\* epsilon, in units of the machine epsilon: "4x double precision epsilon".
steffensen_epsilon == 4

Functions == [c0 : -MaxCoef..MaxCoef, c1 : -1..1, c2 : -1..1]

\* Lines 83-88: f(x) = 2 - x^2.
Func == [c0 |-> 2, c1 |-> 0, c2 |-> -1]

Guesses == {k * Half : k \in -MaxGuess..MaxGuess}

\* f(v) for the polynomial with the coefficients c.
f(c, v) == c.c0 * One + c.c1 * v + c.c2 * FMul(v, v)

\* Line 65: f_xn = f(xn)
steffensen_f_xn(c, v) == f(c, v)

\* Line 66: g_xn = f(xn + f_xn) / f_xn - 1.0, for f_xn # 0.
steffensen_g_xn(c, v) == FDiv(f(c, v + f(c, v)), f(c, v)) - One

\* Line 71: xn - f_xn / g_xn, for g_xn # 0.
steffensen_update(c, v) == v - FDiv(f(c, v), steffensen_g_xn(c, v))

\* The pass stays within the floats the model can multiply and divide.
PassInRange(c, v) ==
    /\ InRange(v)
    /\ InRange(v + f(c, v))
    /\ CanDivide(f(c, v))
    /\ CanDivide(f(c, v + f(c, v)))
    /\ (f(c, v) # 0 /\ steffensen_g_xn(c, v) # 0)
           => InRange(steffensen_update(c, v))

SteffInit ==
    /\ pc = "call"
    /\ func \in Functions
    /\ X \in Guesses
    /\ xn = 0
    /\ root = Pending
    /\ nevals = 0
    /\ iters = 0
    /\ heap = << >>
    /\ ExpIdle
    /\ PowIdle
    /\ CxIdle
    /\ HeronIdle
    /\ AgainIdle

SteffFrame == UNCHANGED <<heap, expVars, powVars, cxVars, heronVars, again>>

\* Lines 52-58: the iteration starts at the guess.
SteffEnter ==
    /\ pc = "call"
    /\ pc' = "loop"
    /\ xn' = X
    /\ UNCHANGED <<func, X, root, nevals, iters>>
    /\ SteffFrame

InPass ==
    /\ pc = "loop"
    /\ iters < steffensen_maximum_number_of_iterations
    /\ PassInRange(func, xn)

\* Line 66 with f_xn = 0: the division by f_xn raises, after both
\* evaluations of f.
SteffZeroValue ==
    /\ InPass
    /\ steffensen_f_xn(func, xn) = 0
    /\ pc' = "done"
    /\ root' = Err("ZeroDivisionError")
    /\ nevals' = nevals + 2
    /\ iters' = iters + 1
    /\ UNCHANGED <<func, X, xn>>
    /\ SteffFrame

\* The pass that would return the iterate when g_xn = 0 instead of raising.
SteffZeroSlopeReturnsIterate ==
    /\ InPass
    /\ steffensen_f_xn(func, xn) # 0
    /\ steffensen_g_xn(func, xn) = 0
    /\ pc' = "done"
    /\ root' = Ok(xn)
    /\ nevals' = nevals + 2
    /\ iters' = iters + 1
    /\ UNCHANGED <<func, X, xn>>
    /\ SteffFrame

\* Line 71 with g_xn = 0: the division by g_xn raises.
SteffZeroSlope ==
    /\ InPass
    /\ steffensen_f_xn(func, xn) # 0
    /\ steffensen_g_xn(func, xn) = 0
    /\ pc' = "done"
    /\ root' = Err("ZeroDivisionError")
    /\ nevals' = nevals + 2
    /\ iters' = iters + 1
    /\ UNCHANGED <<func, X, xn>>
    /\ SteffFrame

\* Lines 65-76, f_xn not below epsilon: the update, and the loop goes on.
SteffIterate ==
    /\ InPass
    /\ steffensen_f_xn(func, xn) # 0
    /\ steffensen_g_xn(func, xn) # 0
    /\ ~(Abs(steffensen_f_xn(func, xn)) < steffensen_epsilon)
    /\ xn' = steffensen_update(func, xn)
    /\ nevals' = nevals + 2
    /\ iters' = iters + 1
    /\ UNCHANGED <<pc, func, X, root>>
    /\ SteffFrame

\* The break taken before the update of line 71: the iterate at which f
\* was measured is returned.
SteffConvergedBeforeUpdate ==
    /\ InPass
    /\ steffensen_f_xn(func, xn) # 0
    /\ steffensen_g_xn(func, xn) # 0
    /\ Abs(steffensen_f_xn(func, xn)) < steffensen_epsilon
    /\ pc' = "done"
    /\ root' = Ok(xn)
    /\ nevals' = nevals + 2
    /\ iters' = iters + 1
    /\ UNCHANGED <<func, X, xn>>
    /\ SteffFrame

\* Lines 65-80, f_xn below epsilon: the update, then break and return.
SteffConverged ==
    /\ InPass
    /\ steffensen_f_xn(func, xn) # 0
    /\ steffensen_g_xn(func, xn) # 0
    /\ Abs(steffensen_f_xn(func, xn)) < steffensen_epsilon
    /\ xn' = steffensen_update(func, xn)
    /\ pc' = "done"
    /\ root' = Ok(xn')
    /\ nevals' = nevals + 2
    /\ iters' = iters + 1
    /\ UNCHANGED <<func, X>>
    /\ SteffFrame

\* Lines 61 and 80: the for loop is exhausted; the last iterate is returned.
SteffExhausted ==
    /\ pc = "loop"
    /\ ~(iters < steffensen_maximum_number_of_iterations)
    /\ pc' = "done"
    /\ root' = Ok(xn)
    /\ UNCHANGED <<func, X, xn, nevals, iters>>
    /\ SteffFrame

\* The iteration leaves the floats of the model: the run is not followed
\* further.
SteffOutOfRange ==
    /\ pc = "loop"
    /\ iters < steffensen_maximum_number_of_iterations
    /\ ~PassInRange(func, xn)
    /\ pc' = "out_of_range"
    /\ UNCHANGED <<func, X, xn, root, nevals, iters>>
    /\ SteffFrame

SteffNext ==
    \/ SteffEnter
    \/ SteffZeroValue
    \/ SteffZeroSlope
    \/ SteffIterate
    \/ SteffConverged
    \/ SteffExhausted
    \/ SteffOutOfRange

SpecSteff == SteffInit /\ [][SteffNext]_vars

(***************************************************************************)
(* The two solvers as whole calls, and the program that calls a solver a   *)
(* second time on the value the first call returned:                       *)
(*     r = herons_method(x);  herons_method(r)                             *)
(*     r = steffensen(f, x);  steffensen(f, r)                             *)
(***************************************************************************)
RECURSIVE herons_loop(_, _, _)
\* Lines 67-82, from pass i with the iterate a.
herons_loop(xv, a, i) ==
    IF ~(i < herons_maximum_number_of_iterations) THEN Ok(a)
    ELSE IF Abs(herons_error(xv, a)) <= herons_epsilon THEN Ok(a)
    ELSE herons_loop(xv, herons_update(xv, a), i + 1)

herons_method(xv) ==
    IF herons_invalid(xv) THEN Err("ValueError") ELSE herons_loop(xv, xv, 0)

RECURSIVE steffensen_loop(_, _, _)
\* Lines 61-80, from pass i with the iterate v.
steffensen_loop(c, v, i) ==
    IF ~(i < steffensen_maximum_number_of_iterations) THEN Ok(v)
    ELSE IF ~PassInRange(c, v) THEN Err("out_of_range")
    ELSE IF steffensen_f_xn(c, v) = 0 THEN Err("ZeroDivisionError")
    ELSE IF steffensen_g_xn(c, v) = 0 THEN Err("ZeroDivisionError")
    ELSE IF Abs(steffensen_f_xn(c, v)) < steffensen_epsilon
         THEN Ok(steffensen_update(c, v))
    ELSE steffensen_loop(c, steffensen_update(c, v), i + 1)

steffensen(c, v) == steffensen_loop(c, v, 0)

AgainInit == HeronInit \/ SteffInit

\* r = herons_method(x)
HeronFirst ==
    /\ pc = "call"
    /\ SteffIdle
    /\ sqrt_x' = herons_method(x)
    /\ pc' = IF sqrt_x'.tag = "ok" THEN "again" ELSE "done"
    /\ UNCHANGED <<x, approximate_root, iters, again>>
    /\ UNCHANGED <<heap, expVars, powVars, cxVars, steffVars>>

\* herons_method(r)
HeronAgain ==
    /\ pc = "again"
    /\ SteffIdle
    /\ again' = herons_method(sqrt_x.val)
    /\ pc' = "done"
    /\ UNCHANGED <<heap, iters, expVars, powVars, cxVars, heronVars, steffVars>>

\* r = steffensen(f, x)
SteffFirst ==
    /\ pc = "call"
    /\ ~SteffIdle
    /\ root' = steffensen(func, X)
    /\ pc' = IF root'.tag = "ok" THEN "again" ELSE "done"
    /\ UNCHANGED <<func, X, xn, nevals, iters, again>>
    /\ UNCHANGED <<heap, expVars, powVars, cxVars, heronVars>>

\* steffensen(f, r)
SteffAgain ==
    /\ pc = "again"
    /\ ~SteffIdle
    /\ again' = steffensen(func, root.val)
    /\ pc' = "done"
    /\ UNCHANGED <<heap, iters, expVars, powVars, cxVars, heronVars, steffVars>>

AgainNext == HeronFirst \/ HeronAgain \/ SteffFirst \/ SteffAgain

SpecAgain == AgainInit /\ [][AgainNext]_vars

(***************************************************************************)
(* herons_method(x) in exact arithmetic: x and the iterate are rationals   *)
(* num / den in lowest terms, and line 77 is computed without rounding.    *)
(* A run is followed while the terms of the iterate stay within MaxTerm.   *)
(***************************************************************************)
Rat(p, q) ==
    LET g == GCD(Abs(p), Abs(q))
        sg == IF q < 0 THEN -1 ELSE 1
    IN  [num |-> (sg * p) \div g, den |-> Abs(q) \div g]

RatAdd(a, b) == Rat(a.num * b.den + b.num * a.den, a.den * b.den)

\* a / b, for b # 0.
RatDiv(a, b) == Rat(a.num * b.den, a.den * b.num)

RatMul(a, b) == Rat(a.num * b.num, a.den * b.den)

RatLeq(a, b) == a.num * b.den <= b.num * a.den

RatLess(a, b) == a.num * b.den < b.num * a.den

\* The update that adds x / approximate_root and forgets the 0.5.
herons_update_without_half(xv, a) == RatAdd(a, RatDiv(xv, a))

\* Line 77: 0.5 * (approximate_root + x / approximate_root), exactly.
herons_update_exact(xv, a) == RatMul(Rat(1, 2), RatAdd(a, RatDiv(xv, a)))

\* Lines 71-73: abs((x - a * a) / x) <= epsilon.  For the arguments tried
\* a residual that is not zero is above 1 / (MaxNum * MaxTerm^2), far
\* above epsilon, so the test succeeds exactly when a * a = x.
herons_converged_exact(xv, a) == RatMul(a, a) = xv

InTerms(a) == Abs(a.num) <= MaxTerm /\ a.den <= MaxTerm

\* The arguments tried: the positive rationals p / q with small terms.
ExactInputs == {Rat(p, q) : p \in 1..MaxNum, q \in 1..MaxDen}

ExactInit ==
    /\ pc = "call"
    /\ x \in ExactInputs
    /\ approximate_root = Rat(0, 1)
    /\ sqrt_x = Pending
    /\ iters = 0
    /\ heap = << >>
    /\ ExpIdle
    /\ PowIdle
    /\ CxIdle
    /\ SteffIdle
    /\ AgainIdle

ExactFrame == UNCHANGED <<heap, expVars, powVars, cxVars, steffVars, again>>

\* Lines 49-64: x is positive; the first iterate is x.
ExactEnter ==
    /\ pc = "call"
    /\ pc' = "loop"
    /\ approximate_root' = x
    /\ UNCHANGED <<x, sqrt_x, iters>>
    /\ ExactFrame

\* Lines 71-74 and 82: the residual is within epsilon: break and return.
ExactConverged ==
    /\ pc = "loop"
    /\ iters < herons_maximum_number_of_iterations
    /\ herons_converged_exact(x, approximate_root)
    /\ pc' = "done"
    /\ sqrt_x' = Ok(approximate_root)
    /\ UNCHANGED <<x, approximate_root, iters>>
    /\ ExactFrame

\* Lines 71-77: the residual is not within epsilon: the next iterate.
ExactIterate ==
    /\ pc = "loop"
    /\ iters < herons_maximum_number_of_iterations
    /\ ~herons_converged_exact(x, approximate_root)
    /\ InTerms(herons_update_exact(x, approximate_root))
    /\ approximate_root' = herons_update_exact(x, approximate_root)
    /\ iters' = iters + 1
    /\ UNCHANGED <<pc, x, sqrt_x>>
    /\ ExactFrame

\* The next iterate has a term above MaxTerm: the run is not followed
\* further.
ExactOutOfTerms ==
    /\ pc = "loop"
    /\ iters < herons_maximum_number_of_iterations
    /\ ~herons_converged_exact(x, approximate_root)
    /\ ~InTerms(herons_update_exact(x, approximate_root))
    /\ pc' = "out_of_range"
    /\ UNCHANGED <<x, approximate_root, sqrt_x, iters>>
    /\ ExactFrame

ExactNext == ExactEnter \/ ExactConverged \/ ExactIterate \/ ExactOutOfTerms

SpecExact == ExactInit /\ [][ExactNext]_vars

(***************************************************************************)
(* Properties of exp_by_squaring.                                          *)
(***************************************************************************)
\* v multiplied by itself: the product of k factors v, k >= 1.
RECURSIVE NumPow(_, _)
NumPow(v, k) == IF k = 1 THEN v ELSE NumMul(v, NumPow(v, k - 1))

Returned == pc = "done"

\* C1: for a number z and an exponent n >= 1 the call returns the product
\* of n factors z.
C1_PowerOfNumber ==
    (Returned /\ IsNum(z_val) /\ power >= 1)
        => z_pow = Ok(NumPow(z_val, power))

C1_Witness ==
    /\ Returned
    /\ z_val = Real(2)
    /\ power = 5
    /\ iters = 2
    /\ z_pow = Ok(Real(32))

\* The components of the Complex instance a call returned.
ReturnedComponents == heap[z_pow.val.id]

\* C3: for a Complex instance z and an exponent n >= 1 the call returns a
\* Complex whose components are those of the product of n factors z.
C3_PowerOfComplexInstance ==
    (Returned /\ IsRef(z_val) /\ power >= 1)
        => /\ z_pow.tag = "ok"
           /\ IsRef(z_pow.val)
           /\ LET p == NumPow(Num(given.real, given.imag, 1), power)
              IN  /\ ReturnedComponents.real = p.re
                  /\ ReturnedComponents.imag = p.im

\* C5: with the exponent 0 the call returns 1 for every base, zero
\* included, and multiplies and inverts nothing.
C5_ZeroExponent ==
    (Returned /\ power = 0)
        => /\ z_pow = Ok(Real(1))
           /\ nmul = 0
           /\ ninv = 0
           /\ iters = 0

C5_Witness ==
    /\ Returned
    /\ power = 0
    /\ z_val = Real(0)
    /\ z_pow = Ok(Real(1))

\* C6: the base 0 with a negative exponent raises ZeroDivisionError at
\* the inversion, before any pass through the loop, and no state of the
\* call holds a returned value; the base 0 with an exponent >= 0 raises
\* nothing.
C6_ZeroBase ==
    (IsNum(z_val) /\ IsZero(z_val))
        => /\ power < 0 =>
                /\ z_pow.tag \in {"pending", "ZeroDivisionError"}
                /\ iters = 0
                /\ nmul = 0
                /\ pc # "loop"
                /\ Returned => z_pow = Err("ZeroDivisionError")
           /\ power >= 0 =>
                /\ z_pow.tag \in {"pending", "ok"}
                /\ Returned => z_pow.tag = "ok"

C6_Witness ==
    /\ Returned
    /\ z_val = Real(0)
    /\ power = -3
    /\ z_pow = Err("ZeroDivisionError")

\* C7: for a nonzero number z and integers n and m of any sign,
\* exp_by_squaring(z, n) * exp_by_squaring(z, m) is exp_by_squaring(z, n + m).
C7_ProductLaw ==
    Returned => /\ z_pow.tag = "ok"
                /\ prod = z_pow

C7_Witness ==
    /\ Returned
    /\ z_val = Num(1, 1, 1)
    /\ power = -3
    /\ power2 = 2
    /\ prod = Ok(Num(1, -1, 2))

(***************************************************************************)
(* Properties of the Complex class.                                        *)
(***************************************************************************)
\* The operator an in-place operator stands for.
BinaryOf(op) ==
    CASE op = "+=" -> "+"
      [] op = "-=" -> "-"
      [] op = "*=" -> "*"

\* C2: after z += w, z -= w or z *= w on Complex values, w being z
\* itself or not, z is the same object and its components are those of
\* z + w, z - w or z * w computed from the operands as they were before.
C2_InPlaceMatchesOperator ==
    (last.op \in {"+=", "-=", "*="} /\ IsRef(last.other))
        => LET r == Apply(BinaryOf(last.op), last.pre, last.self, last.other)
           IN  /\ last.err = ""
               /\ last.ret = last.self
               /\ heap[last.self.id] = r.heap[r.val.id]

\* The modulus of v is zero.
ZeroModulus(h, v) ==
    IF IsRef(v) THEN h[v.id].real = 0 /\ h[v.id].imag = 0 ELSE IsZero(v)

\* C9: a Complex value divided by a Complex value or by a real scalar
\* raises ZeroDivisionError when the divisor's modulus is zero, and
\* otherwise returns a Complex value.
C9_DivisionSupported ==
    (last.op = "/" /\ IsRef(last.self))
        => IF ZeroModulus(last.pre, last.other)
           THEN last.err = "ZeroDivisionError"
           ELSE last.err = "" /\ IsRef(last.ret)

\* C10: z == w holds exactly when the real parts are equal and the
\* imaginary parts are equal, for the same object or two objects.
C10_EqualityComponentwise ==
    \A a \in Instances, b \in Instances :
        PyEq(heap, a, b) <=>
            (heap[a.id].real = heap[b.id].real
             /\ heap[a.id].imag = heap[b.id].imag)

(***************************************************************************)
(* Properties of the solvers.                                              *)
(***************************************************************************)
\* C4: called with a guess that is a root of f, steffensen returns the
\* guess after at most one pass through its loop, and raises nothing.
C4_RootGuessReturned ==
    (pc = "done" /\ f(func, X) = 0)
        => /\ root.tag = "ok"
           /\ root.val = X
           /\ iters <= 1

\* C8: for x <= 0 herons_method raises ValueError before it computes any
\* iterate, and returns nothing; for x > 0 it never raises ValueError.
C8_HeronRejects ==
    /\ x <= 0 =>
          /\ sqrt_x.tag \in {"pending", "ValueError"}
          /\ approximate_root = 0
          /\ iters = 0
          /\ pc \in {"call", "done"}
          /\ pc = "done" => sqrt_x.tag = "ValueError"
    /\ x > 0 =>
          /\ sqrt_x.tag \in {"pending", "ok"}
          /\ pc = "done" => sqrt_x.tag = "ok"

C8_Witness ==
    /\ pc = "done"
    /\ x = 0
    /\ sqrt_x.tag = "ValueError"

\* The step machines and the whole calls agree on what a call returns.
HeronWholeCall == pc = "done" => sqrt_x = herons_method(x)

SteffWholeCall ==
    /\ pc = "done" => root = steffensen(func, X)
    /\ pc = "out_of_range" => steffensen(func, X).tag = "out_of_range"

\* Two floats within a few units of the machine epsilon of each other.
Close(a, b) == Abs(a - b) <= 2 * steffensen_epsilon

\* What the first call returned, in the program that calls a solver twice.
FirstReturned == IF SteffIdle THEN sqrt_x ELSE root

\* C11: a solver called again on the value it returned gives that value
\* again, to within rounding, and raises nothing: herons_method(r) for
\* r = herons_method(x), x > 0, and steffensen(f, r) for r = steffensen(f, x0).
C11_RerunGivesSameValue ==
    (pc = "done" /\ again.tag \notin {"pending", "out_of_range"})
        => /\ again.tag = "ok"
           /\ Close(again.val, FirstReturned.val)

\* The second call at a root the first call found: f(r) = 0.
C11_RerunAtExactRoot ==
    /\ pc = "done"
    /\ ~SteffIdle
    /\ root.tag = "ok"
    /\ f(func, root.val) = 0
    /\ again.tag = "ZeroDivisionError"

\* The second call of herons_method is the square root of the first.
C11_RerunOfHeron ==
    /\ pc = "done"
    /\ SteffIdle
    /\ x = One \div 4
    /\ sqrt_x.tag = "ok"
    /\ sqrt_x.val = Half
    /\ again.tag = "ok"
    /\ ~Close(again.val, Half)

\* The pass about to run divides by a slope g_xn that is exactly zero.
ZeroSlopeAhead ==
    /\ InPass
    /\ steffensen_f_xn(func, xn) # 0
    /\ steffensen_g_xn(func, xn) = 0

\* C12: when g_xn = f(xn + f_xn) / f_xn - 1 is exactly zero in a pass of
\* steffensen, the call ends in that pass with ZeroDivisionError: no value
\* is returned, the iterate is not updated and no later pass runs.
C12_ZeroSlopeRaises ==
    [][ZeroSlopeAhead =>
           /\ pc' = "done"
           /\ root'.tag = "ZeroDivisionError"
           /\ root'.val = None
           /\ xn' = xn
           /\ iters' = iters + 1]_vars

\* A zero slope met in a later pass than the first.
C12_Witness ==
    /\ pc = "done"
    /\ iters >= 2
    /\ root.tag = "ZeroDivisionError"
    /\ steffensen_f_xn(func, xn) # 0
    /\ steffensen_g_xn(func, xn) = 0

RECURSIVE herons_iterate(_, _)
\* The iterate after k updates of line 77, starting from a = x.
herons_iterate(xv, k) ==
    IF k = 0 THEN xv ELSE herons_update(xv, herons_iterate(xv, k - 1))

\* Lines 71-73: the relative residual of the iterate a is within epsilon.
WithinEpsilon(xv, a) == Abs(herons_error(xv, a)) <= herons_epsilon

\* C13: for x > 0 herons_method applies the update at most 16 times and
\* raises nothing; it returns the first iterate, counted from a = x, whose
\* relative residual is within epsilon, the test coming before each update,
\* or else the iterate the 16th update produced.
C13_HeronTerminates ==
    x > 0 =>
        /\ iters <= herons_maximum_number_of_iterations
        /\ sqrt_x.tag \in {"pending", "ok"}
        /\ pc = "loop" => approximate_root = herons_iterate(x, iters)
        /\ pc = "done" =>
              /\ sqrt_x.tag = "ok"
              /\ sqrt_x.val = herons_iterate(x, iters)
              /\ \A k \in 0..(iters - 1) :
                     ~WithinEpsilon(x, herons_iterate(x, k))
              /\ \/ WithinEpsilon(x, sqrt_x.val)
                 \/ iters = herons_maximum_number_of_iterations

\* A call that returns the iterate of the 16th update, untested.
C13_Witness ==
    /\ pc = "done"
    /\ x > 0
    /\ iters = herons_maximum_number_of_iterations
    /\ sqrt_x.tag = "ok"
    /\ ~WithinEpsilon(x, sqrt_x.val)

\* A call that returns an iterate within epsilon after several updates.
C13_WitnessConverged ==
    /\ pc = "done"
    /\ x > 0
    /\ iters >= 3
    /\ iters < herons_maximum_number_of_iterations
    /\ sqrt_x.tag = "ok"
    /\ WithinEpsilon(x, sqrt_x.val)

\* Line 75: abs(f_xn) < epsilon, for the pass about to run.
BelowEpsilon == Abs(steffensen_f_xn(func, xn)) < steffensen_epsilon

\* The pass about to run divides by zero, at line 66 or at line 71.
DivisionAhead ==
    \/ steffensen_f_xn(func, xn) = 0
    \/ steffensen_g_xn(func, xn) = 0

\* At most 16 passes, each with two evaluations of f.
EvaluationsCounted ==
    /\ iters' <= steffensen_maximum_number_of_iterations
    /\ nevals' = 2 * iters'
    /\ nevals' <= 32
    /\ iters' # iters => iters' = iters + 1 /\ nevals' = nevals + 2

\* A pass after which the loop goes on made the update, and its f_xn was
\* not below epsilon.
PassGoesOn ==
    (InPass /\ pc' = "loop")
        => /\ ~DivisionAhead
           /\ xn' = steffensen_update(func, xn)
           /\ ~BelowEpsilon

\* The call returns the iterate that this pass's update produced, f_xn
\* having been below epsilon.
ReturnsUpdated ==
    /\ InPass
    /\ BelowEpsilon
    /\ root'.tag = "ok"
    /\ root'.val = steffensen_update(func, xn)
    /\ xn' = root'.val

\* The call returns the iterate of the 16th pass.
ReturnsSixteenth ==
    /\ iters = steffensen_maximum_number_of_iterations
    /\ root'.tag = "ok"
    /\ root'.val = xn
    /\ xn' = xn

\* The pass raises at a division by zero; the iterate is not updated.
RaisesInPass ==
    /\ InPass
    /\ DivisionAhead
    /\ root'.tag = "ZeroDivisionError"
    /\ xn' = xn

\* C14 as stated: at most 16 passes and 32 evaluations of f, two per pass;
\* the update comes before the tolerance test, so a call that stops on
\* abs(f_xn) < epsilon returns the updated iterate; a call in which no pass
\* meets the tolerance returns the 16th iterate, without error.
C14_ReturnsWithoutError ==
    [][/\ EvaluationsCounted
       /\ PassGoesOn
       /\ (pc = "loop" /\ pc' = "done")
              => (ReturnsUpdated \/ ReturnsSixteenth)]_vars

\* C14, amended: as above, except that a pass in which f_xn = 0 or
\* g_xn = 0 ends the call with ZeroDivisionError instead; only a call
\* whose 16 passes all complete without meeting the tolerance returns the
\* 16th iterate.
C14_ReturnsOrRaises ==
    [][/\ EvaluationsCounted
       /\ PassGoesOn
       /\ (pc = "loop" /\ pc' = "done")
              => (ReturnsUpdated \/ ReturnsSixteenth \/ RaisesInPass)
       /\ (InPass /\ DivisionAhead) => RaisesInPass /\ pc' = "done"]_vars

\* A call that stopped on the tolerance in a later pass than the first and
\* returned the iterate its last update produced.
C14_Witness ==
    /\ pc = "done"
    /\ root.tag = "ok"
    /\ iters >= 2
    /\ iters < steffensen_maximum_number_of_iterations
    /\ nevals = 2 * iters
    /\ root.val = xn
    /\ xn # X

\* A call that made all 16 passes and returned the 16th iterate.
C14_WitnessSixteenth ==
    /\ pc = "done"
    /\ root.tag = "ok"
    /\ iters = steffensen_maximum_number_of_iterations
    /\ nevals = 32
    /\ root.val = xn

(***************************************************************************)
(* Properties of the loop of exp_by_squaring.                              *)
(***************************************************************************)
\* floor(log2(k)) for k >= 1: the e with 2^e <= k < 2^(e + 1).
FloorLog2(k) == CHOOSE e \in 0..k : 2 ^ e <= k /\ k < 2 ^ (e + 1)

\* Every pass squares output once (line 85), so the squarings made so far
\* are the passes made; the other multiplications counted by nmul are
\* those of scale by output (line 81) and the final output * scale.
Squarings == iters

ScaleMultiplications == nmul - iters - (IF pc = "done" THEN 1 ELSE 0)

\* C15: for n >= 1 the loop of exp_by_squaring ends after exactly
\* floor(log2(n)) passes, with that many squarings and at most that many
\* multiplications of scale by output, so that the call makes at most
\* 2 * floor(log2(n)) + 1 multiplications, the final output * scale
\* included.
C15_LoopPasses ==
    (power >= 1 /\ pc # "call") =>
        /\ iters <= FloorLog2(power)
        /\ (pc = "loop" /\ n = 1) => iters = FloorLog2(power)
        /\ pc = "done" =>
              /\ z_pow.tag = "ok"
              /\ n = 1
              /\ iters = FloorLog2(power)
              /\ Squarings = FloorLog2(power)
              /\ ScaleMultiplications >= 0
              /\ ScaleMultiplications <= FloorLog2(power)
              /\ nmul <= 2 * FloorLog2(power) + 1

\* A call that multiplies scale by output in every pass of its loop: the
\* bound on the multiplications is met.
C15_Witness ==
    /\ pc = "done"
    /\ power >= 3
    /\ iters = FloorLog2(power)
    /\ ScaleMultiplications = FloorLog2(power)
    /\ nmul = 2 * FloorLog2(power) + 1

\* The components of the caller's base: of the object z_val refers to, or
\* the number itself.
BaseNow == IF IsRef(z_val) THEN heap[z_val.id] ELSE z_val

\* C16: exp_by_squaring leaves its arguments as they were: whatever base z
\* the caller passes, a number or a Complex instance, and whatever n, the
\* base has the same component values after the call as before it.
C16_BaseUnchanged == BaseNow = given

\* The call has returned and the caller's Complex instance is no longer
\* what was passed.
C16_BaseOverwritten ==
    /\ pc = "done"
    /\ z_pow.tag = "ok"
    /\ IsRef(z_val)
    /\ given = [real |-> 2, imag |-> 1]
    /\ power = 2
    /\ heap[z_val.id] = [real |-> 3, imag |-> 5]

\* The number a value stands for: the number itself, or the components of
\* the Complex instance referred to.
ValueOf(h, v) == IF IsRef(v) THEN Num(h[v.id].real, h[v.id].imag, 1) ELSE v

\* The base as the caller passed it.
GivenValue == IF IsRef(z_val) THEN Num(given.real, given.imag, 1) ELSE given

\* z0 and n0: the base and the exponent with which the loop is entered
\* (lines 54-59).
EntryBase == IF power < 0 THEN NumInv(GivenValue) ELSE GivenValue

EntryExponent == Abs(power)

\* sc * out^k = z0^n0, for the scale, output and n found at a test of the
\* loop condition with the heap h.
PowerKept(h, sc, out, k) ==
    NumMul(ValueOf(h, sc), NumPow(ValueOf(h, out), k))
        = NumPow(EntryBase, EntryExponent)

\* Every test of the loop condition finds n >= 1, every pass makes n
\* smaller, and the loop is left only with n = 1.
ExponentDecreases ==
    /\ pc' = "loop" => n' >= 1
    /\ (pc = "loop" /\ pc' = "loop") => (n > 1 /\ n' < n)
    /\ (pc = "loop" /\ pc' = "done") => n = 1

\* C17: the loop invariant of exp_by_squaring.  With z0 the base, inverted
\* for a negative exponent, and n0 = |n| >= 1 the exponent at the entry of
\* the loop, every test of the loop condition finds n >= 1 and
\* scale * output^n = z0^n0; every pass makes n smaller, and the loop is
\* left only with n = 1.
C17_LoopInvariant ==
    [][/\ ExponentDecreases
       /\ pc' = "loop" => PowerKept(heap', scale', output', n')]_vars

\* The invariant for the bases that are Python numbers.
C17_LoopInvariantOfNumbers ==
    [][/\ ExponentDecreases
       /\ (pc' = "loop" /\ IsNum(z_val))
              => PowerKept(heap', scale', output', n')]_vars

\* The second test of the loop condition in a call with a Complex
\* instance: output has been squared in place, and the power is lost.
C17_PowerLost ==
    /\ pc = "loop"
    /\ IsRef(z_val)
    /\ given = [real |-> 2, imag |-> 1]
    /\ power = 2
    /\ iters = 1
    /\ n = 1
    /\ ~PowerKept(heap, scale, output, n)

\* The third test of the loop condition in a call with a number and a
\* negative exponent: the base was inverted, scale has been multiplied,
\* and the power is kept.
C17_PowerKeptOfNumber ==
    /\ pc = "loop"
    /\ IsNum(z_val)
    /\ power = -6
    /\ iters = 2
    /\ n = 1
    /\ scale # Real(1)
    /\ PowerKept(heap, scale, output, n)

(***************************************************************************)
(* Properties of the iterates of herons_method in exact arithmetic.        *)
(***************************************************************************)
\* The pass made the update of line 77.
Updated == pc = "loop" /\ pc' = "loop"

\* The iterate is strictly positive whenever line 77 may divide by it.
IteratePositive == pc' = "loop" => approximate_root'.num > 0

\* a * a >= x for the iterate an update produced.
SquareAtLeast == RatLeq(x, RatMul(approximate_root', approximate_root'))

\* The iterate an update produced is no larger than the one before.
NotLarger == RatLeq(approximate_root', approximate_root)

\* C18 as stated: for x > 0, in exact arithmetic, the iterate is strictly
\* positive at every step, and from the first update on every iterate a
\* has a * a >= x and is no larger than the iterate before it.
C18_IteratesDecrease ==
    [][/\ IteratePositive
       /\ Updated => (SquareAtLeast /\ NotLarger)]_vars

\* C18, amended: the iterate is strictly positive at every step and from
\* the first update on a * a >= x; every iterate from the second update
\* on is no larger than the one before, and so is the first update's
\* iterate when x >= 1, but for x < 1 the first update's iterate,
\* (x + 1) / 2, is larger than the starting iterate x.
C18_IteratesDecreaseAfterFirst ==
    [][/\ IteratePositive
       /\ Updated =>
              /\ SquareAtLeast
              /\ (iters >= 1 \/ RatLeq(Rat(1, 1), x)) => NotLarger
              /\ (iters = 0 /\ RatLess(x, Rat(1, 1))) => ~NotLarger]_vars

\* An argument below 1 after three updates: the first went up, the second
\* and the third came down, and every square is at least x.
C18_Witness ==
    /\ pc = "loop"
    /\ iters = 3
    /\ RatLess(x, Rat(1, 1))
    /\ approximate_root = herons_update_exact(x,
           herons_update_exact(x, herons_update_exact(x, x)))
    /\ RatLess(x, herons_update_exact(x, x))
    /\ RatLess(approximate_root,
               herons_update_exact(x, herons_update_exact(x, x)))
    /\ RatLeq(x, RatMul(approximate_root, approximate_root))

====
